---- MODULE Spec2Model ----
(***************************************************************************)
(* Model of streamlit_app.py, the PA Response Generator: the rule engine   *)
(* (body_part, side, surgery_type, findings, fmt_date) and the generate    *)
(* loop that assembles one output record per input row and collects the    *)
(* rows that have issues.                                                  *)
(*                                                                         *)
(* Python strings are sequences of one-character strings, so that          *)
(* substring tests, prefix tests, indexing, lower-casing, word boundaries  *)
(* and joins are computed character by character as the code does.         *)
(* A cell value is tagged with its Python type: a str, the float nan that  *)
(* pandas puts in an empty cell, a bool, or None.                          *)
(***************************************************************************)
EXTENDS Integers, Sequences, FiniteSets, TLC

VARIABLES
    pc,         \* "awaiting" | "iter" | "done" (generate), "call" | "returned" (one function applied)
    n,          \* number of rows of the uploaded frame
    df,         \* the rows df.iterrows() has yielded so far
    rows,       \* generate: the list rows
    anomalies,  \* generate: the list anomalies
    fn,         \* name of the function applied on its own
    arg,        \* its row argument
    argPart,    \* its part argument (side only)
    ret         \* its return value

vars == <<pc, n, df, rows, anomalies, fn, arg, argPart, ret>>

----------------------------------------------------------------------------
(* Values and strings *)

StrV(s) == [t |-> "str", s |-> s]
BoolV(b) == [t |-> "bool", b |-> b]
NaN == [t |-> "nan"]
NoneV == [t |-> "none"]
EmptyV == StrV(<< >>)

\* str(x)
Str(v) ==
    CASE v.t = "str" -> v.s
      [] v.t = "nan" -> <<"n","a","n">>
      [] v.t = "none" -> <<"N","o","n","e">>
      [] v.t = "bool" -> IF v.b THEN <<"T","r","u","e">> ELSE <<"F","a","l","s","e">>

\* str.lower(), one character
LowerChar(c) ==
    CASE c = "A" -> "a" [] c = "B" -> "b" [] c = "C" -> "c" [] c = "D" -> "d"
      [] c = "E" -> "e" [] c = "F" -> "f" [] c = "G" -> "g" [] c = "H" -> "h"
      [] c = "I" -> "i" [] c = "J" -> "j" [] c = "K" -> "k" [] c = "L" -> "l"
      [] c = "M" -> "m" [] c = "N" -> "n" [] c = "O" -> "o" [] c = "P" -> "p"
      [] c = "Q" -> "q" [] c = "R" -> "r" [] c = "S" -> "s" [] c = "T" -> "t"
      [] c = "U" -> "u" [] c = "V" -> "v" [] c = "W" -> "w" [] c = "X" -> "x"
      [] c = "Y" -> "y" [] c = "Z" -> "z" [] OTHER -> c

\* str.lower()
Lower(s) == [i \in 1..Len(s) |-> LowerChar(s[i])]

\* k in s
Contains(s, k) ==
    \E i \in 1..(Len(s) - Len(k) + 1) : SubSeq(s, i, i + Len(k) - 1) = k

\* s.startswith(p)
StartsWith(s, p) == Len(s) >= Len(p) /\ SubSeq(s, 1, Len(p)) = p

\* sep.join(parts)
RECURSIVE Join(_, _)
Join(parts, sep) ==
    IF Len(parts) = 0 THEN << >>
    ELSE IF Len(parts) = 1 THEN parts[1]
    ELSE parts[1] \o sep \o Join(Tail(parts), sep)

\* row.get(c, default) on a pandas Series
Get(row, c, default) == IF c \in DOMAIN row THEN row[c] ELSE default

std(v) == Lower(Str(v))

----------------------------------------------------------------------------
(* Rule sets *)

UpperExtremity == <<"U","p","p","e","r"," ","E","x","t","r","e","m","i","t","y">>
LowerExtremity == <<"L","o","w","e","r"," ","E","x","t","r","e","m","i","t","y">>
SpineTrunk == <<"S","p","i","n","e","/","T","r","u","n","k">>
HeadFaceJaw == <<"H","e","a","d","/","F","a","c","e","/","J","a","w">>
MultipleAreas == <<"M","u","l","t","i","p","l","e"," ","A","r","e","a","s"," ","/"," ","S","y","s","t","e","m","i","c">>

\* dict order of KEYWORDS and PREFIX_BUCKETS
Categories == <<UpperExtremity, LowerExtremity, SpineTrunk, HeadFaceJaw>>

KEYWORDS ==
    << <<<<"s","h","o","u","l","d","e","r">>, <<"e","l","b","o","w">>, <<"w","r","i","s","t">>, <<"h","a","n","d">>, <<"a","r","m">>>>,
       <<<<"h","i","p">>, <<"t","h","i","g","h">>, <<"k","n","e","e">>, <<"a","n","k","l","e">>, <<"f","o","o","t">>, <<"l","e","g">>>>,
       <<<<"s","p","i","n","e">>, <<"b","a","c","k">>, <<"l","u","m","b","a","r">>, <<"t","h","o","r","a","c","i","c">>, <<"c","e","r","v","i","c","a","l">>>>,
       <<<<"h","e","a","d">>, <<"f","a","c","e">>, <<"j","a","w">>, <<"t","m","j">>, <<"c","o","n","c","u","s","s","i","o","n">>>> >>

PREFIX_BUCKETS ==
    << <<<<"M","7","5">>, <<"S","4">>, <<"S","4","3">>, <<"S","4","5">>>>,
       <<<<"M","1","7">>, <<"S","8","3">>, <<"S","8","2">>, <<"S","8","6">>>>,
       <<<<"M","5","4">>, <<"S","2","3">>, <<"S","3","3">>, <<"M","5","1">>, <<"M","5","0">>>>,
       <<<<"S","0","2">>, <<"S","0","6">>>> >>

Right == <<"R","i","g","h","t">>
Left == <<"L","e","f","t">>
Bilateral == <<"B","i","l","a","t","e","r","a","l">>
NotApplicable == <<"N","o","t"," ","A","p","p","l","i","c","a","b","l","e">>

ICD_LATERALITY == [c \in {"1", "2", "3"} |->
    CASE c = "1" -> Right [] c = "2" -> Left [] c = "3" -> Bilateral]

OtherSurgery == <<"O","t","h","e","r"," ","O","r","t","h","o","p","e","d","i","c","/","S","o","f","t"," ","T","i","s","s","u","e"," ","S","u","r","g","e","r","y">>

SURGERY_KW ==
    << [cat |-> <<"J","o","i","n","t"," ","R","e","p","l","a","c","e","m","e","n","t"," ","S","u","r","g","e","r","y">>,
        kws |-> <<<<"r","e","p","l","a","c","e","m","e","n","t">>, <<"a","r","t","h","r","o","p","l","a","s","t","y">>, <<"t","k","r">>>>],
       [cat |-> <<"A","r","t","h","r","o","s","c","o","p","i","c","/","M","i","n","i","m","a","l","l","y"," ","I","n","v","a","s","i","v","e"," ","J","o","i","n","t"," ","S","u","r","g","e","r","y">>,
        kws |-> <<<<"a","r","t","h","r","o","s","c","o","p","i","c">>, <<"a","r","t","h","r","o","s","c","o","p","y">>, <<"s","c","o","p","e">>>>],
       [cat |-> <<"S","p","i","n","e"," ","S","u","r","g","e","r","y">>,
        kws |-> <<<<"l","a","m","i","n","e","c","t","o","m","y">>, <<"f","u","s","i","o","n">>, <<"d","i","s","c","e","c","t","o","m","y">>>>],
       [cat |-> <<"F","r","a","c","t","u","r","e","/","T","r","a","u","m","a"," ","R","e","p","a","i","r">>,
        kws |-> <<<<"f","r","a","c","t","u","r","e">>, <<"o","r","i","f">>, <<"h","a","r","d","w","a","r","e">>, <<"f","i","x","a","t","i","o","n">>>>] >>

SPECIAL_TESTS == <<<<"l","a","c","h","m","a","n">>, <<"h","a","w","k","i","n","s">>, <<"p","h","a","l","e","n">>, <<"d","r","a","w","e","r">>, <<"a","p","p","r","e","h","e","n","s","i","o","n">>>>

\* any(k in std(text) for k in kws); text is a str here
any_kw(text, kws) ==
    LET t == Lower(text) IN \E j \in 1..Len(kws) : Contains(t, kws[j])

----------------------------------------------------------------------------
(* fmt_date *)

Digits == {"0", "1", "2", "3", "4", "5", "6", "7", "8", "9"}

DigitVal(c) ==
    CASE c = "0" -> 0 [] c = "1" -> 1 [] c = "2" -> 2 [] c = "3" -> 3
      [] c = "4" -> 4 [] c = "5" -> 5 [] c = "6" -> 6 [] c = "7" -> 7
      [] c = "8" -> 8 [] c = "9" -> 9

Num2(s, i) == 10 * DigitVal(s[i]) + DigitVal(s[i + 1])

DaysIn(y, m) ==
    IF m \in {4, 6, 9, 11} THEN 30
    ELSE IF m = 2
         THEN (IF (y % 4 = 0 /\ y % 100 # 0) \/ y % 400 = 0 THEN 29 ELSE 28)
         ELSE 31

\* pd.to_datetime(s) succeeds; the model reads ISO dates YYYY-MM-DD, the
\* only date form among the inputs, and rejects (raises on) everything else
IsIsoDate(s) ==
    /\ Len(s) = 10
    /\ s[5] = "-" /\ s[8] = "-"
    /\ \A i \in {1, 2, 3, 4, 6, 7, 9, 10} : s[i] \in Digits
    /\ LET y == 100 * Num2(s, 1) + Num2(s, 3)
           m == Num2(s, 6)
           d == Num2(s, 9)
       IN  y >= 1 /\ m \in 1..12 /\ d >= 1 /\ d <= DaysIn(y, m)

\* pd.isna(val)
IsNa(v) == v.t \in {"nan", "none"}

fmt_dateNoNaCheck(v) ==
    IF v.t = "str" /\ v.s = << >> THEN << >>
    ELSE IF v.t = "str" /\ IsIsoDate(v.s)
         THEN SubSeq(v.s, 9, 10) \o <<"-">> \o SubSeq(v.s, 6, 7) \o <<"-">> \o SubSeq(v.s, 1, 4)
         ELSE Str(v)

fmt_date(v) ==
    IF IsNa(v) \/ (v.t = "str" /\ v.s = << >>) THEN << >>
    ELSE IF v.t = "str" /\ IsIsoDate(v.s)
         THEN SubSeq(v.s, 9, 10) \o <<"-">> \o SubSeq(v.s, 6, 7) \o <<"-">> \o SubSeq(v.s, 1, 4)
         ELSE Str(v)

----------------------------------------------------------------------------
(* Q7: body_part *)

\* icd.startswith(pref), pref a tuple of prefixes
StartsWithAny(s, prefs) == \E j \in 1..Len(prefs) : StartsWith(s, prefs[j])

body_partMatches(row) ==
    LET icd == Str(Get(row, "Primary_Diagnosis_Code", EmptyV))
        blob == Lower(Str(Get(row, "Diagnosis_Description", EmptyV)) \o <<" ">>
                      \o Str(Get(row, "Assessment", EmptyV)))
    IN  {Categories[i] : i \in {i \in 1..Len(Categories) : StartsWithAny(icd, PREFIX_BUCKETS[i])}}
        \cup
        {Categories[i] : i \in {i \in 1..Len(Categories) : any_kw(blob, KEYWORDS[i])}}

body_partCodeFirst(row) ==
    LET icd == Str(Get(row, "Primary_Diagnosis_Code", EmptyV))
        byCode == {i \in 1..Len(Categories) : StartsWithAny(icd, PREFIX_BUCKETS[i])}
        matches == body_partMatches(row)
    IN  IF byCode # {} THEN Categories[CHOOSE i \in byCode : \A j \in byCode : i <= j]
        ELSE IF Cardinality(matches) = 1 THEN CHOOSE c \in matches : TRUE
        ELSE IF Cardinality(matches) > 1 THEN MultipleAreas
        ELSE << >>

body_part(row) ==
    LET matches == body_partMatches(row)
    IN  IF Cardinality(matches) = 1 THEN CHOOSE c \in matches : TRUE
        ELSE IF Cardinality(matches) > 1 THEN MultipleAreas
        ELSE << >>

----------------------------------------------------------------------------
(* Q8: side *)

\* \w of Python's re on the characters the inputs use
IsWordChar(c) ==
    c \in {"a", "b", "c", "d", "e", "f", "g", "h", "i", "j", "k", "l", "m",
           "n", "o", "p", "q", "r", "s", "t", "u", "v", "w", "x", "y", "z",
           "A", "B", "C", "D", "E", "F", "G", "H", "I", "J", "K", "L", "M",
           "N", "O", "P", "Q", "R", "S", "T", "U", "V", "W", "X", "Y", "Z",
           "_"} \cup Digits

\* \b between position i-1 and i of s (i in 1..Len(s)+1)
WordBoundary(s, i) ==
    LET before == i > 1 /\ IsWordChar(s[i - 1])
        after == i <= Len(s) /\ IsWordChar(s[i])
    IN  before # after

\* the strings \bbilat(er(al)?)?\b|\bboth\b can match between its two \b
BilateralWords == {<<"b","i","l","a","t">>, <<"b","i","l","a","t","e","r">>, <<"b","i","l","a","t","e","r","a","l">>, <<"b","o","t","h">>}

\* re.search(r"\bbilat(er(al)?)?\b|\bboth\b", blob)
SearchBilateral(blob) ==
    \E i \in 1..Len(blob) : \E w \in BilateralWords :
        /\ i + Len(w) - 1 <= Len(blob)
        /\ SubSeq(blob, i, i + Len(w) - 1) = w
        /\ WordBoundary(blob, i)
        /\ WordBoundary(blob, i + Len(w))

SideFields == <<"Diagnosis_Description", "Assessment", "Range_of_Motion", "Strength">>

\* " ".join(str(row.get(c,"")).lower() for c in fields)
Blob(row, fields) ==
    Join([i \in 1..Len(fields) |-> Lower(Str(Get(row, fields[i], EmptyV)))], <<" ">>)

sideIndex3(row, part) ==
    LET icd == Str(Get(row, "Primary_Diagnosis_Code", EmptyV))
        blob == Blob(row, SideFields)
    IN  IF Len(icd) >= 5 /\ icd[4] \in DOMAIN ICD_LATERALITY THEN ICD_LATERALITY[icd[4]]
        ELSE IF SearchBilateral(blob) THEN Bilateral
        ELSE IF Contains(blob, <<"l","e","f","t">>) THEN Left
        ELSE IF Contains(blob, <<"r","i","g","h","t">>) THEN Right
        ELSE IF part \in {SpineTrunk, HeadFaceJaw} THEN NotApplicable
        ELSE << >>

sideRightFirst(row, part) ==
    LET icd == Str(Get(row, "Primary_Diagnosis_Code", EmptyV))
        blob == Blob(row, SideFields)
    IN  IF Len(icd) >= 5 /\ icd[5] \in DOMAIN ICD_LATERALITY THEN ICD_LATERALITY[icd[5]]
        ELSE IF SearchBilateral(blob) THEN Bilateral
        ELSE IF Contains(blob, <<"r","i","g","h","t">>) THEN Right
        ELSE IF Contains(blob, <<"l","e","f","t">>) THEN Left
        ELSE IF part \in {SpineTrunk, HeadFaceJaw} THEN NotApplicable
        ELSE << >>

\* icd[4] of the code is the fifth character, icd[5] here
side(row, part) ==
    LET icd == Str(Get(row, "Primary_Diagnosis_Code", EmptyV))
        blob == Blob(row, SideFields)
    IN  IF Len(icd) >= 5 /\ icd[5] \in DOMAIN ICD_LATERALITY THEN ICD_LATERALITY[icd[5]]
        ELSE IF SearchBilateral(blob) THEN Bilateral
        ELSE IF Contains(blob, <<"l","e","f","t">>) THEN Left
        ELSE IF Contains(blob, <<"r","i","g","h","t">>) THEN Right
        ELSE IF part \in {SpineTrunk, HeadFaceJaw} THEN NotApplicable
        ELSE << >>

----------------------------------------------------------------------------
(* Q12: surgery_type *)

TruthyTokens == {<<"y","e","s">>, <<"y">>, <<"t","r","u","e">>, <<"1">>}

\* std(row.get("Had_Surgery","")) in ("yes","y","true","1")
HadSurgery(row) == std(Get(row, "Had_Surgery", EmptyV)) \in TruthyTokens

SurgeryFields == <<"Diagnosis_Description", "Assessment", "Justification_for_PT">>

\* for cat,kws in SURGERY_KW.items(): if any_kw(blob,kws): return cat
RECURSIVE FirstBucket(_, _)
FirstBucket(blob, i) ==
    IF i > Len(SURGERY_KW) THEN OtherSurgery
    ELSE IF any_kw(blob, SURGERY_KW[i].kws) THEN SURGERY_KW[i].cat
    ELSE FirstBucket(blob, i + 1)

\* the last matching bucket instead of the first
RECURSIVE LastBucket(_, _)
LastBucket(blob, i) ==
    IF i < 1 THEN OtherSurgery
    ELSE IF any_kw(blob, SURGERY_KW[i].kws) THEN SURGERY_KW[i].cat
    ELSE LastBucket(blob, i - 1)

surgery_typeLastMatch(row) ==
    IF ~HadSurgery(row) THEN << >>
    ELSE LastBucket(Blob(row, SurgeryFields), Len(SURGERY_KW))

surgery_typeNoFallback(row) ==
    IF ~HadSurgery(row) THEN << >>
    ELSE LET t == FirstBucket(Blob(row, SurgeryFields), 1)
         IN  IF t = OtherSurgery THEN << >> ELSE t

surgery_type(row) ==
    IF ~HadSurgery(row) THEN << >>
    ELSE FirstBucket(Blob(row, SurgeryFields), 1)

----------------------------------------------------------------------------
(* Q13: findings *)

RestrictedROM == <<"R","e","s","t","r","i","c","t","e","d"," ","R","O","M">>
StrengthDeficits == <<"S","t","r","e","n","g","t","h"," ","D","e","f","i","c","i","t","s">>
PainSwelling == <<"P","a","i","n","/","S","w","e","l","l","i","n","g">>
BalanceGait == <<"B","a","l","a","n","c","e","/","G","a","i","t"," ","I","m","p","a","i","r","e","d">>
PositiveTests == <<"P","o","s","i","t","i","v","e"," ","S","p","e","c","i","a","l"," ","T","e","s","t","s">>

\* any(x in s for x in kws)
AnyIn(s, kws) == \E j \in 1..Len(kws) : Contains(s, kws[j])

\* out.append(tag) when cond
Append1(out, cond, tag) == IF cond THEN Append(out, tag) ELSE out

findingsFirstOnly(row) ==
    LET rom == std(Get(row, "Range_of_Motion", EmptyV))
        stren == std(Get(row, "Strength", EmptyV))
        asses == std(Get(row, "Assessment", EmptyV))
    IN  IF AnyIn(rom, <<<<"l","i","m","i","t","e","d">>, <<"r","e","s","t","r","i","c","t","i","o","n">>>>) \/ Contains(rom, <<"r","o","m">>) THEN RestrictedROM
        ELSE IF AnyIn(stren, <<<<"/","5">>, <<"w","e","a","k">>, <<"d","e","f","i","c","i","t">>>>) THEN StrengthDeficits
        ELSE IF AnyIn(asses, <<<<"p","a","i","n">>, <<"t","e","n","d","e","r">>, <<"s","w","e","l","l","i","n","g">>>>) THEN PainSwelling
        ELSE IF AnyIn(asses, <<<<"g","a","i","t">>, <<"b","a","l","a","n","c","e">>>>) THEN BalanceGait
        ELSE IF any_kw(asses, SPECIAL_TESTS) THEN PositiveTests
        ELSE << >>

findings(row) ==
    LET rom == std(Get(row, "Range_of_Motion", EmptyV))
        stren == std(Get(row, "Strength", EmptyV))
        asses == std(Get(row, "Assessment", EmptyV))
        o1 == Append1(<<>>, AnyIn(rom, <<<<"l","i","m","i","t","e","d">>, <<"r","e","s","t","r","i","c","t","i","o","n">>>>) \/ Contains(rom, <<"r","o","m">>),
                      RestrictedROM)
        o2 == Append1(o1, AnyIn(stren, <<<<"/","5">>, <<"w","e","a","k">>, <<"d","e","f","i","c","i","t">>>>), StrengthDeficits)
        o3 == Append1(o2, AnyIn(asses, <<<<"p","a","i","n">>, <<"t","e","n","d","e","r">>, <<"s","w","e","l","l","i","n","g">>>>), PainSwelling)
        o4 == Append1(o3, AnyIn(asses, <<<<"g","a","i","t">>, <<"b","a","l","a","n","c","e">>>>), BalanceGait)
        o5 == Append1(o4, any_kw(asses, SPECIAL_TESTS), PositiveTests)
    IN  Join(o5, <<";"," ">>)

----------------------------------------------------------------------------
(* Core generator: one pass of the loop body of generate *)

YesStr == <<"Y","e","s">>
NoStr == <<"N","o">>
MissingBodyPart == <<"M","i","s","s","i","n","g"," ","B","o","d","y","_","P","a","r","t">>
MissingSide == <<"M","i","s","s","i","n","g"," ","S","i","d","e">>
SurgeryNoDate == <<"S","u","r","g","e","r","y"," ","f","l","a","g","g","e","d"," ","w","i","t","h","o","u","t"," ","d","a","t","e">>

\* "Surgery_Date": fmt_date(r.get("Date_of_Surgery")) if surg else ""
SurgeryDateAlways(r, surg) == fmt_date(Get(r, "Date_of_Surgery", NoneV))

SurgeryDate(r, surg) ==
    IF surg THEN fmt_date(Get(r, "Date_of_Surgery", NoneV)) ELSE << >>

\* rec = {...}
Rec(r) ==
    LET part == body_part(r)
        sd == side(r, part)
        surg == HadSurgery(r)
    IN  ("Patient_ID" :> Get(r, "Patient_ID", NoneV))
        @@ ("Name" :> Get(r, "Patient_Name", NoneV))
        @@ ("DOB" :> fmt_date(Get(r, "Date_of_Birth", NoneV)))
        @@ ("Payer" :> Get(r, "Insurance_Payer", NoneV))
        @@ ("Policy#" :> Get(r, "Policy_Number", NoneV))
        @@ ("Ref_MD" :> Get(r, "Referring_Physician", NoneV))
        @@ ("ICD10" :> Get(r, "Primary_Diagnosis_Code", NoneV))
        @@ ("Body_Part" :> part)
        @@ ("Side" :> sd)
        @@ ("Injury_Date" :> fmt_date(Get(r, "Date_of_Injury_Onset", NoneV)))
        @@ ("Had_Surgery" :> IF surg THEN YesStr ELSE NoStr)
        @@ ("Surgery_Date" :> SurgeryDate(r, surg))
        @@ ("Surgery_Type" :> surgery_type(r))
        @@ ("Objective_Findings" :> findings(r))

IssuesSideFirst(rec, surg) ==
    LET i1 == Append1(<<>>, rec["Side"] = << >>, MissingSide)
        i2 == Append1(i1, rec["Body_Part"] = << >>, MissingBodyPart)
    IN  Append1(i2, surg /\ rec["Surgery_Date"] = << >>, SurgeryNoDate)

\* issues = [] and the three tests that append to it
Issues(rec, surg) ==
    LET i1 == Append1(<<>>, rec["Body_Part"] = << >>, MissingBodyPart)
        i2 == Append1(i1, rec["Side"] = << >>, MissingSide)
    IN  Append1(i2, surg /\ rec["Surgery_Date"] = << >>, SurgeryNoDate)

AnomaliesAlways(anoms, issues, rec) ==
    Append(anoms, ("Issue" :> Join(issues, <<";"," ">>)) @@ rec)

\* if issues: anomalies.append({"Issue":"; ".join(issues),**rec})
Anomalies(anoms, issues, rec) ==
    IF issues # <<>>
    THEN Append(anoms, ("Issue" :> Join(issues, <<";"," ">>)) @@ rec)
    ELSE anoms

\* what one row contributes: its record and its issues
GenerateRow(r) ==
    LET rec == Rec(r) IN [rec |-> rec, issues |-> Issues(rec, HadSurgery(r))]

----------------------------------------------------------------------------
(* Inputs *)

MaxRows == 2

Absent == [t |-> "absent"]

Fields ==
    {"Primary_Diagnosis_Code", "Diagnosis_Description", "Assessment",
     "Range_of_Motion", "Strength", "Justification_for_PT", "Had_Surgery",
     "Date_of_Surgery"}

\* a row of the frame: the columns whose value is not Absent
Row(code, desc, assess, rom, stren, just, had, dos) ==
    LET f == ("Primary_Diagnosis_Code" :> code) @@ ("Diagnosis_Description" :> desc)
             @@ ("Assessment" :> assess) @@ ("Range_of_Motion" :> rom)
             @@ ("Strength" :> stren) @@ ("Justification_for_PT" :> just)
             @@ ("Had_Surgery" :> had) @@ ("Date_of_Surgery" :> dos)
    IN  [c \in {c \in Fields : f[c] # Absent} |-> f[c]]

NoRow == [c \in {} |-> EmptyV]

Parts == {UpperExtremity, LowerExtremity, SpineTrunk, HeadFaceJaw, MultipleAreas, << >>}

SideRows ==
    {Row(code, desc, assess, rom, stren, Absent, Absent, Absent) :
        code \in {Absent, NaN, StrV(<<"S","4","3","2","1">>), StrV(<<"S","4","3","1","2">>), StrV(<<"S","8","3","2","3">>),
                  StrV(<<"M","5","4",".","5">>), StrV(<<"M","5","4","5">>)},
        desc \in {Absent, StrV(<<"l","e","f","t"," ","k","n","e","e"," ","p","a","i","n">>), StrV(<<"R","i","g","h","t"," ","s","h","o","u","l","d","e","r"," ","s","t","r","a","i","n">>),
                  StrV(<<"B","i","l","a","t","e","r","a","l"," ","k","n","e","e"," ","O","A">>), StrV(<<"p","a","i","n"," ","i","n"," ","b","o","t","h"," ","h","i","p","s">>),
                  StrV(<<"b","i","l","a","t"," ","w","r","i","s","t"," ","p","a","i","n">>), StrV(<<"b","i","l","a","t","e","r"," ","l","e","f","t"," ","k","n","e","e">>),
                  StrV(<<"b","i","l","a","t","e","r","a","l","l","y"," ","s","t","i","f","f"," ","r","i","g","h","t">>), StrV(<<"u","p","r","i","g","h","t"," ","p","o","s","t","u","r","e">>),
                  StrV(<<"b","o","t","h","e","r","s","o","m","e"," ","n","e","c","k">>), StrV(<<"l","o","w"," ","b","a","c","k"," ","p","a","i","n">>)},
        assess \in {Absent, StrV(<< >>), StrV(<<"w","o","r","s","e"," ","o","n"," ","t","h","e"," ","r","i","g","h","t">>),
                    StrV(<<"L","e","f","t"," ",">"," ","R","i","g","h","t">>), StrV(<<"b","o","t","h","_","s","i","d","e","s"," ","l","e","f","t">>)},
        rom \in {StrV(<< >>), StrV(<<"l","i","m","i","t","e","d"," ","l","e","f","t"," ","r","o","t","a","t","i","o","n">>)},
        stren \in {Absent, StrV(<<"4","/","5"," ","r","i","g","h","t">>)}}

BodyPartRows ==
    {Row(code, desc, assess, Absent, Absent, Absent, Absent, Absent) :
        code \in {Absent, NaN, StrV(<< >>), StrV(<<"S","4","3","2","1">>), StrV(<<"M","7","5",".","1">>),
                  StrV(<<"M","1","7",".","1","1">>), StrV(<<"S","8","3",".","2">>), StrV(<<"M","5","4",".","5">>), StrV(<<"S","0","6",".","0">>),
                  StrV(<<"s","4","3",".","2">>), StrV(<<"Z","0","0",".","0">>)},
        desc \in {Absent, StrV(<< >>), StrV(<<"k","n","e","e"," ","p","a","i","n">>), StrV(<<"S","h","o","u","l","d","e","r"," ","s","t","r","a","i","n">>),
                  StrV(<<"l","o","w"," ","b","a","c","k"," ","p","a","i","n">>), StrV(<<"h","e","a","d","a","c","h","e">>), StrV(<<"p","h","a","r","m","a","c","y"," ","r","e","v","i","e","w">>),
                  StrV(<<"r","o","u","t","i","n","e"," ","v","i","s","i","t">>), StrV(<<"n","e","c","k"," ","a","n","d"," ","j","a","w">>)},
        assess \in {Absent, NaN, StrV(<<"A","n","k","l","e"," ","s","w","e","l","l","i","n","g">>), StrV(<<"c","e","r","v","i","c","a","l"," ","s","t","i","f","f","n","e","s","s">>),
                    StrV(<<"n","o"," ","d","e","f","i","c","i","t","s">>)}}

FindingsRows ==
    {Row(Absent, Absent, assess, rom, stren, Absent, Absent, Absent) :
        assess \in {Absent, StrV(<< >>), StrV(<<"s","e","v","e","r","e"," ","p","a","i","n",","," ","p","o","s","i","t","i","v","e"," ","l","a","c","h","m","a","n">>),
                    StrV(<<"a","n","t","a","l","g","i","c"," ","g","a","i","t">>),
                    StrV(<<"T","e","n","d","e","r",","," ","s","w","e","l","l","i","n","g",","," ","p","o","o","r"," ","b","a","l","a","n","c","e",","," ","p","o","s","i","t","i","v","e"," ","d","r","a","w","e","r">>),
                    StrV(<<"s","t","a","b","l","e">>), StrV(<<"l","i","m","i","t","e","d"," ","r","o","m",","," ","w","e","a","k"," ","3","/","5">>)},
        rom \in {Absent, NaN, StrV(<< >>), StrV(<<"l","i","m","i","t","e","d"," ","f","l","e","x","i","o","n">>), StrV(<<"F","u","l","l"," ","R","O","M">>),
                 StrV(<<"W","N","L">>), StrV(<<"R","e","s","t","r","i","c","t","i","o","n"," ","i","n"," ","a","b","d","u","c","t","i","o","n">>),
                 StrV(<<"p","a","i","n","f","u","l",","," ","w","e","a","k",","," ","g","a","i","t">>)},
        stren \in {Absent, StrV(<<"4","/","5"," ","q","u","a","d">>), StrV(<<"5","/","5">>), StrV(<<"W","e","a","k","n","e","s","s"," ","n","o","t","e","d">>),
                   StrV(<<"n","o","r","m","a","l">>), StrV(<<"s","t","r","e","n","g","t","h"," ","d","e","f","i","c","i","t">>),
                   StrV(<<"l","i","m","i","t","e","d"," ","b","y"," ","p","a","i","n",","," ","l","a","c","h","m","a","n">>)}}

HadValues ==
    {Absent, NaN, StrV(<< >>), StrV(<<"y","e","s">>), StrV(<<"Y","e","s">>), StrV(<<"Y">>), StrV(<<"n","o">>),
     StrV(<<"t","r","u","e">>), StrV(<<"1">>), StrV(<<"0">>), StrV(<<" ","y","e","s">>), BoolV(TRUE), BoolV(FALSE)}

SurgeryRows ==
    {Row(Absent, desc, assess, Absent, Absent, just, had, Absent) :
        had \in HadValues,
        desc \in {Absent, StrV(<<"s","/","p"," ","t","o","t","a","l"," ","k","n","e","e"," ","r","e","p","l","a","c","e","m","e","n","t">>), StrV(<<"A","C","L"," ","t","e","a","r">>),
                  StrV(<<"f","r","a","c","t","u","r","e"," ","f","i","x","a","t","i","o","n"," ","a","f","t","e","r"," ","a","r","t","h","r","o","p","l","a","s","t","y">>)},
        assess \in {StrV(<< >>), StrV(<<"A","r","t","h","r","o","s","c","o","p","i","c"," ","d","e","b","r","i","d","e","m","e","n","t">>),
                    StrV(<<"l","u","m","b","a","r"," ","f","u","s","i","o","n"," ","w","i","t","h"," ","h","a","r","d","w","a","r","e">>)},
        just \in {Absent, StrV(<<"p","o","s","t","-","o","p"," ","s","c","o","p","e"," ","r","e","h","a","b">>), StrV(<<"O","R","I","F"," ","f","o","l","l","o","w","-","u","p">>),
                  StrV(<<"s","t","r","e","n","g","t","h","e","n","i","n","g">>)}}

\* every column absent, empty, or holding one value
MissingRows ==
    {Row(code, desc, assess, rom, stren, just, had, dos) :
        code \in {Absent, StrV(<< >>), StrV(<<"S","8","3",".","2">>)},
        desc \in {Absent, StrV(<< >>), StrV(<<"k","n","e","e"," ","p","a","i","n">>)},
        assess \in {Absent, StrV(<< >>), StrV(<<"t","e","n","d","e","r",","," ","a","n","t","a","l","g","i","c"," ","g","a","i","t">>)},
        rom \in {Absent, StrV(<< >>), StrV(<<"l","i","m","i","t","e","d">>)},
        stren \in {Absent, StrV(<< >>), StrV(<<"4","/","5">>)},
        just \in {Absent, StrV(<< >>), StrV(<<"p","o","s","t","-","o","p"," ","s","c","o","p","e">>)},
        had \in {Absent, StrV(<< >>), StrV(<<"y","e","s">>)},
        dos \in {Absent, StrV(<< >>), StrV(<<"2","0","2","4","-","0","3","-","1","5">>)}}

\* the rows of an uploaded frame
GenRows ==
    {Row(p[1], p[2], Absent, Absent, Absent, Absent, had, dos) :
        p \in {<<StrV(<<"M","1","7",".","1","2">>), StrV(<<"l","e","f","t"," ","k","n","e","e"," ","r","e","p","l","a","c","e","m","e","n","t">>)>>,
               <<Absent, StrV(<<"r","o","u","t","i","n","e"," ","v","i","s","i","t">>)>>},
        had \in {Absent, StrV(<<"Y","e","s">>), StrV(<<"n","o">>), BoolV(TRUE)},
        dos \in {Absent, NaN, StrV(<<"2","0","2","4","-","0","3","-","1","5">>), StrV(<<"u","n","k","n","o","w","n">>)}}
    \cup
    {Row(StrV(<<"M","5","4",".","5">>), StrV(<<"l","o","w"," ","b","a","c","k"," ","p","a","i","n">>), Absent, Absent, Absent, Absent,
         StrV(<<"y","e","s">>), StrV(<< >>)),
     Row(Absent, StrV(<<"s","h","o","u","l","d","e","r"," ","p","a","i","n">>), Absent, Absent, Absent, Absent,
         StrV(<<"y">>), StrV(<<"2","0","2","4","-","0","2","-","3","0">>)),
     Row(Absent, Absent, Absent, Absent, Absent, Absent, Absent, Absent)}

----------------------------------------------------------------------------
(* generate, and the upload that calls it *)

Init ==
    /\ pc = "awaiting"
    /\ n = 0
    /\ df = <<>>
    /\ rows = <<>>
    /\ anomalies = <<>>
    /\ fn = "none"
    /\ arg = NoRow
    /\ argPart = << >>
    /\ ret = << >>

\* a file of k rows is uploaded and read; generate(df) starts with empty lists
Upload ==
    /\ pc = "awaiting"
    /\ \E k \in 0..MaxRows : n' = k
    /\ pc' = "iter"
    /\ df' = <<>>
    /\ rows' = <<>>
    /\ anomalies' = <<>>
    /\ UNCHANGED <<fn, arg, argPart, ret>>

\* one iteration of for _,r in df.iterrows()
Iterate ==
    /\ pc = "iter"
    /\ Len(rows) < n
    /\ \E r \in GenRows :
        LET g == GenerateRow(r)
        IN  /\ df' = Append(df, r)
            /\ rows' = Append(rows, g.rec)
            /\ anomalies' = Anomalies(anomalies, g.issues, g.rec)
    /\ UNCHANGED <<pc, n, fn, arg, argPart, ret>>

\* return pd.DataFrame(rows), pd.DataFrame(anomalies)
Return ==
    /\ pc = "iter"
    /\ Len(rows) = n
    /\ pc' = "done"
    /\ UNCHANGED <<n, df, rows, anomalies, fn, arg, argPart, ret>>

Next == Upload \/ Iterate \/ Return

Spec == Init /\ [][Next]_vars

----------------------------------------------------------------------------
(* One function applied to one input *)

InitCall(f, inputs, parts) ==
    /\ pc = "call"
    /\ n = 0
    /\ df = <<>>
    /\ rows = <<>>
    /\ anomalies = <<>>
    /\ fn = f
    /\ arg \in inputs
    /\ argPart \in parts
    /\ ret = << >>

Returned(v) ==
    /\ pc' = "returned"
    /\ ret' = v
    /\ UNCHANGED <<n, df, rows, anomalies, fn, arg, argPart>>

InitSide == InitCall("side", SideRows, Parts)
ApplySide == pc = "call" /\ fn = "side" /\ Returned(side(arg, argPart))
SpecSide == InitSide /\ [][ApplySide]_vars

InitBodyPart == InitCall("body_part", BodyPartRows, {<< >>})
ApplyBodyPart == pc = "call" /\ fn = "body_part" /\ Returned(body_part(arg))
SpecBodyPart == InitBodyPart /\ [][ApplyBodyPart]_vars

InitFindings == InitCall("findings", FindingsRows, {<< >>})
ApplyFindings == pc = "call" /\ fn = "findings" /\ Returned(findings(arg))
SpecFindings == InitFindings /\ [][ApplyFindings]_vars

InitSurgery == InitCall("surgery_type", SurgeryRows, {<< >>})
ApplySurgery == pc = "call" /\ fn = "surgery_type" /\ Returned(surgery_type(arg))
SpecSurgery == InitSurgery /\ [][ApplySurgery]_vars

InitMissing == InitCall("generate_row", MissingRows, {<< >>})
ApplyGenerateRow == pc = "call" /\ fn = "generate_row" /\ Returned(GenerateRow(arg))
SpecMissing == InitMissing /\ [][ApplyGenerateRow]_vars

----------------------------------------------------------------------------
(* Properties *)

\* the row holds the str s in column c
HasStr(row, c, s) == c \in DOMAIN row /\ row[c].t = "str" /\ row[c].s = s

\* the lower-cased text of one column, "" when the column is absent
FieldText(row, c) == Lower(Str(Get(row, c, EmptyV)))

\* w occurs in s as a whole word: not preceded and not followed by a letter,
\* a digit or an underscore
HasWord(s, w) ==
    \E i \in 1..(Len(s) - Len(w) + 1) :
        /\ SubSeq(s, i, i + Len(w) - 1) = w
        /\ (i = 1 \/ ~IsWordChar(s[i - 1]))
        /\ (i + Len(w) > Len(s) \/ ~IsWordChar(s[i + Len(w)]))

SideColumns == {"Diagnosis_Description", "Assessment", "Range_of_Motion", "Strength"}
SurgeryColumns == {"Diagnosis_Description", "Assessment", "Justification_for_PT"}

TextHas(row, cols, k) == \E c \in cols : Contains(FieldText(row, c), k)

CodeText(row) == Str(Get(row, "Primary_Diagnosis_Code", EmptyV))

\* the character at index 4 (0-based) of the code is 1, 2 or 3
CodeHit(row) == Len(CodeText(row)) >= 5 /\ CodeText(row)[5] \in {"1", "2", "3"}

\* C1 as stated: a record whose code is exactly "S4321" gets side "Left",
\* whatever the part and the text.
C1_Original ==
    (pc = "returned" /\ HasStr(arg, "Primary_Diagnosis_Code", <<"S","4","3","2","1">>)) => ret = Left

\* C1 as amended: a record whose code is exactly "S4321" gets side "Right"
\* (its character at index 4 is "1"), whatever the part and the text,
\* text mentioning "left" included.
C1_S4321IsRight ==
    (pc = "returned" /\ HasStr(arg, "Primary_Diagnosis_Code", <<"S","4","3","2","1">>)) => ret = Right

C1_Witness ==
    /\ pc = "returned"
    /\ HasStr(arg, "Primary_Diagnosis_Code", <<"S","4","3","2","1">>)
    /\ TextHas(arg, SideColumns, <<"l","e","f","t">>)
    /\ argPart = SpineTrunk
    /\ ret = Right

\* the precedence chain of side, the bilateral rule firing on a whole word
\* out of words
SideByRules(row, part, words) ==
    LET code == CodeText(row)
    IN  IF Len(code) >= 5 /\ code[5] = "1" THEN Right
        ELSE IF Len(code) >= 5 /\ code[5] = "2" THEN Left
        ELSE IF Len(code) >= 5 /\ code[5] = "3" THEN Bilateral
        ELSE IF \E c \in SideColumns : \E w \in words : HasWord(FieldText(row, c), w)
             THEN Bilateral
        ELSE IF TextHas(row, SideColumns, <<"l","e","f","t">>) THEN Left
        ELSE IF TextHas(row, SideColumns, <<"r","i","g","h","t">>) THEN Right
        ELSE IF part = SpineTrunk \/ part = HeadFaceJaw THEN NotApplicable
        ELSE << >>

\* C8 as stated: side is decided by the first rule satisfied of: code
\* position, whole-word "bilateral"/"both"/"bilat", "left", "right",
\* midline part, else "".
C8_Original ==
    pc = "returned" => ret = SideByRules(arg, argPart, {<<"b","i","l","a","t","e","r","a","l">>, <<"b","o","t","h">>, <<"b","i","l","a","t">>})

\* C8 as amended: the same chain, the bilateral rule firing on a whole-word
\* "bilateral", "bilater", "bilat" or "both"; a text with both "left" and
\* "right", no bilateral word and no code hit gives "Left".
C8_SidePrecedence ==
    pc = "returned" =>
        /\ ret = SideByRules(arg, argPart, {<<"b","i","l","a","t","e","r","a","l">>, <<"b","i","l","a","t","e","r">>, <<"b","i","l","a","t">>, <<"b","o","t","h">>})
        /\ ( ( /\ ~CodeHit(arg)
               /\ TextHas(arg, SideColumns, <<"l","e","f","t">>)
               /\ TextHas(arg, SideColumns, <<"r","i","g","h","t">>)
               /\ ~\E c \in SideColumns : \E w \in {<<"b","i","l","a","t","e","r","a","l">>, <<"b","i","l","a","t","e","r">>, <<"b","i","l","a","t">>, <<"b","o","t","h">>} :
                     HasWord(FieldText(arg, c), w) )
             => ret = Left )

C8_Witness ==
    /\ pc = "returned"
    /\ ~CodeHit(arg)
    /\ TextHas(arg, SideColumns, <<"l","e","f","t">>)
    /\ TextHas(arg, SideColumns, <<"r","i","g","h","t">>)
    /\ ~\E c \in SideColumns : \E w \in {<<"b","i","l","a","t","e","r","a","l">>, <<"b","i","l","a","t","e","r">>, <<"b","i","l","a","t">>, <<"b","o","t","h">>} :
          HasWord(FieldText(arg, c), w)
    /\ argPart = HeadFaceJaw
    /\ ret = Left

\* the categories whose code prefix starts the code
CodeCats(row) ==
    {i \in 1..4 : \E j \in 1..Len(PREFIX_BUCKETS[i]) :
        StartsWith(CodeText(row), PREFIX_BUCKETS[i][j])}

\* the categories with a keyword in the description or the assessment
KeywordCats(row) ==
    {i \in 1..4 : \E j \in 1..Len(KEYWORDS[i]) :
        TextHas(row, {"Diagnosis_Description", "Assessment"}, KEYWORDS[i][j])}

\* C4: body_part returns the matched category when exactly one category is
\* matched by code prefix or by keyword, "Multiple Areas / Systemic" when two
\* or more are, "" when none is; an Upper Extremity prefix with a Lower
\* Extremity keyword gives "Multiple Areas / Systemic".
C4_BodyPart ==
    pc = "returned" =>
        LET m == CodeCats(arg) \cup KeywordCats(arg)
        IN  /\ Cardinality(m) = 1 => \E i \in m : ret = Categories[i]
            /\ Cardinality(m) >= 2 => ret = MultipleAreas
            /\ m = {} => ret = << >>
            /\ (1 \in CodeCats(arg) /\ 2 \in KeywordCats(arg)) => ret = MultipleAreas
            /\ Categories = <<<<"U","p","p","e","r"," ","E","x","t","r","e","m","i","t","y">>, <<"L","o","w","e","r"," ","E","x","t","r","e","m","i","t","y">>, <<"S","p","i","n","e","/","T","r","u","n","k">>,
                              <<"H","e","a","d","/","F","a","c","e","/","J","a","w">>>>

C4_Witness ==
    /\ pc = "returned"
    /\ CodeCats(arg) = {1}
    /\ KeywordCats(arg) = {2}
    /\ ret = MultipleAreas

\* the finding tags in their fixed order, each with its own column and keywords
FindingTags ==
    << [tag |-> <<"R","e","s","t","r","i","c","t","e","d"," ","R","O","M">>, col |-> "Range_of_Motion",
        kws |-> {<<"l","i","m","i","t","e","d">>, <<"r","e","s","t","r","i","c","t","i","o","n">>, <<"r","o","m">>}],
       [tag |-> <<"S","t","r","e","n","g","t","h"," ","D","e","f","i","c","i","t","s">>, col |-> "Strength",
        kws |-> {<<"/","5">>, <<"w","e","a","k">>, <<"d","e","f","i","c","i","t">>}],
       [tag |-> <<"P","a","i","n","/","S","w","e","l","l","i","n","g">>, col |-> "Assessment",
        kws |-> {<<"p","a","i","n">>, <<"t","e","n","d","e","r">>, <<"s","w","e","l","l","i","n","g">>}],
       [tag |-> <<"B","a","l","a","n","c","e","/","G","a","i","t"," ","I","m","p","a","i","r","e","d">>, col |-> "Assessment",
        kws |-> {<<"g","a","i","t">>, <<"b","a","l","a","n","c","e">>}],
       [tag |-> <<"P","o","s","i","t","i","v","e"," ","S","p","e","c","i","a","l"," ","T","e","s","t","s">>, col |-> "Assessment",
        kws |-> {<<"l","a","c","h","m","a","n">>, <<"h","a","w","k","i","n","s">>, <<"p","h","a","l","e","n">>, <<"d","r","a","w","e","r">>, <<"a","p","p","r","e","h","e","n","s","i","o","n">>}] >>

TagApplies(row, t) == \E k \in t.kws : Contains(FieldText(row, t.col), k)

ExpectedFindings(row) ==
    LET Applies(t) == TagApplies(row, t)
        sel == SelectSeq(FindingTags, Applies)
    IN  Join([i \in 1..Len(sel) |-> sel[i].tag], <<";"," ">>)

\* C5: findings is the "; "-join, in the fixed order, of exactly the tags
\* whose own column contains one of the tag's keywords ("" when none does);
\* "limited flexion" with "severe pain, positive lachman" gives
\* "Restricted ROM; Pain/Swelling; Positive Special Tests".
C5_Findings ==
    pc = "returned" =>
        /\ ret = ExpectedFindings(arg)
        /\ ( ( /\ HasStr(arg, "Range_of_Motion", <<"l","i","m","i","t","e","d"," ","f","l","e","x","i","o","n">>)
               /\ HasStr(arg, "Assessment", <<"s","e","v","e","r","e"," ","p","a","i","n",","," ","p","o","s","i","t","i","v","e"," ","l","a","c","h","m","a","n">>)
               /\ ~TagApplies(arg, FindingTags[2]) )
             => ret = <<"R","e","s","t","r","i","c","t","e","d"," ","R","O","M",";"," ","P","a","i","n","/","S","w","e","l","l","i","n","g",";"," ","P","o","s","i","t","i","v","e"," ","S","p","e","c","i","a","l"," ","T","e","s","t","s">> )

C5_Witness ==
    /\ pc = "returned"
    /\ HasStr(arg, "Range_of_Motion", <<"l","i","m","i","t","e","d"," ","f","l","e","x","i","o","n">>)
    /\ HasStr(arg, "Assessment", <<"s","e","v","e","r","e"," ","p","a","i","n",","," ","p","o","s","i","t","i","v","e"," ","l","a","c","h","m","a","n">>)
    /\ "Strength" \notin DOMAIN arg
    /\ ret = <<"R","e","s","t","r","i","c","t","e","d"," ","R","O","M",";"," ","P","a","i","n","/","S","w","e","l","l","i","n","g",";"," ","P","o","s","i","t","i","v","e"," ","S","p","e","c","i","a","l"," ","T","e","s","t","s">>

\* lower-cased Had_Surgery is one of yes, y, true, 1
Truthy(row) == FieldText(row, "Had_Surgery") \in {<<"y","e","s">>, <<"y">>, <<"t","r","u","e">>, <<"1">>}

\* the surgery buckets in declaration order
SurgeryOrder ==
    <<<<"J","o","i","n","t"," ","R","e","p","l","a","c","e","m","e","n","t"," ","S","u","r","g","e","r","y">>, <<"A","r","t","h","r","o","s","c","o","p","i","c","/","M","i","n","i","m","a","l","l","y"," ","I","n","v","a","s","i","v","e"," ","J","o","i","n","t"," ","S","u","r","g","e","r","y">>,
      <<"S","p","i","n","e"," ","S","u","r","g","e","r","y">>, <<"F","r","a","c","t","u","r","e","/","T","r","a","u","m","a"," ","R","e","p","a","i","r">>>>

BucketHit(row, i) ==
    \E j \in 1..Len(SURGERY_KW[i].kws) : TextHas(row, SurgeryColumns, SURGERY_KW[i].kws[j])

\* C9: with a truthy Had_Surgery, surgery_type is the label of the first
\* bucket, in declaration order, with a keyword in the text, later buckets'
\* keywords notwithstanding; without it, "" whatever the text.
C9_SurgeryType ==
    pc = "returned" =>
        /\ ~Truthy(arg) => ret = << >>
        /\ Truthy(arg) =>
              \A i \in 1..4 :
                  (BucketHit(arg, i) /\ \A j \in 1..(i - 1) : ~BucketHit(arg, j))
                      => ret = SurgeryOrder[i]
        /\ \A i \in 1..4 : SURGERY_KW[i].cat = SurgeryOrder[i]

C9_Witness ==
    /\ pc = "returned"
    /\ Truthy(arg)
    /\ BucketHit(arg, 1) /\ BucketHit(arg, 4)
    /\ ret = <<"J","o","i","n","t"," ","R","e","p","l","a","c","e","m","e","n","t"," ","S","u","r","g","e","r","y">>

\* C3: in every output record Surgery_Type is "" exactly when the surgery
\* flag of its row is false, Had_Surgery is "Yes" exactly when it is true,
\* and with the flag true and no surgery keyword in the text Surgery_Type is
\* the fallback label.
C3_SurgeryInvariant ==
    /\ Len(df) = Len(rows)
    /\ \A i \in 1..Len(rows) :
        /\ (rows[i]["Surgery_Type"] = << >>) <=> ~Truthy(df[i])
        /\ (rows[i]["Had_Surgery"] = <<"Y","e","s">>) <=> Truthy(df[i])
        /\ (rows[i]["Surgery_Type"] # << >>) <=> (rows[i]["Had_Surgery"] = <<"Y","e","s">>)
        /\ (Truthy(df[i]) /\ \A b \in 1..4 : ~BucketHit(df[i], b))
              => rows[i]["Surgery_Type"] = <<"O","t","h","e","r"," ","O","r","t","h","o","p","e","d","i","c","/","S","o","f","t"," ","T","i","s","s","u","e"," ","S","u","r","g","e","r","y">>

C3_Witness ==
    \E i \in 1..Len(rows) :
        /\ Truthy(df[i])
        /\ \A b \in 1..4 : ~BucketHit(df[i], b)
        /\ rows[i]["Had_Surgery"] = <<"Y","e","s">>
        /\ rows[i]["Surgery_Type"] = <<"O","t","h","e","r"," ","O","r","t","h","o","p","e","d","i","c","/","S","o","f","t"," ","T","i","s","s","u","e"," ","S","u","r","g","e","r","y">>

\* the issue tags of an output record, in rule-declaration order
ExpectedIssues(rec) ==
    LET rules == << [tag |-> <<"M","i","s","s","i","n","g"," ","B","o","d","y","_","P","a","r","t">>, on |-> rec["Body_Part"] = << >>],
                    [tag |-> <<"M","i","s","s","i","n","g"," ","S","i","d","e">>, on |-> rec["Side"] = << >>],
                    [tag |-> <<"S","u","r","g","e","r","y"," ","f","l","a","g","g","e","d"," ","w","i","t","h","o","u","t"," ","d","a","t","e">>,
                     on |-> rec["Had_Surgery"] = <<"Y","e","s">> /\ rec["Surgery_Date"] = << >>] >>
        On(r) == r.on
        sel == SelectSeq(rules, On)
    IN  [i \in 1..Len(sel) |-> sel[i].tag]

\* the anomaly entries of a list of output records: one per record with an
\* issue, in order
RECURSIVE ExpectedAnomalies(_)
ExpectedAnomalies(rs) ==
    IF rs = <<>> THEN <<>>
    ELSE LET iss == ExpectedIssues(Head(rs))
             rest == ExpectedAnomalies(Tail(rs))
         IN  IF iss = <<>> THEN rest
             ELSE <<("Issue" :> Join(iss, <<";"," ">>)) @@ Head(rs)>> \o rest

\* C6: the anomalies hold, in order, exactly the output records with at
\* least one issue, each with its issues in rule-declaration order; surgery
\* without a date on a record without a body part lists "Missing Body_Part"
\* before "Surgery flagged without date".
C6_Anomalies ==
    /\ anomalies = ExpectedAnomalies(rows)
    /\ \A k \in 1..Len(anomalies) :
        ( /\ anomalies[k]["Had_Surgery"] = <<"Y","e","s">>
          /\ anomalies[k]["Surgery_Date"] = << >>
          /\ anomalies[k]["Body_Part"] = << >> )
        => anomalies[k]["Issue"] \in
              {<<"M","i","s","s","i","n","g"," ","B","o","d","y","_","P","a","r","t",";"," ","S","u","r","g","e","r","y"," ","f","l","a","g","g","e","d"," ","w","i","t","h","o","u","t"," ","d","a","t","e">>,
               <<"M","i","s","s","i","n","g"," ","B","o","d","y","_","P","a","r","t",";"," ","M","i","s","s","i","n","g"," ","S","i","d","e",";"," ","S","u","r","g","e","r","y"," ","f","l","a","g","g","e","d"," ","w","i","t","h","o","u","t"," ","d","a","t","e">>}

C6_Witness ==
    /\ Len(rows) = 2
    /\ Len(anomalies) = 1
    /\ Truthy(df[2])
    /\ anomalies[1]["Issue"] = <<"M","i","s","s","i","n","g"," ","B","o","d","y","_","P","a","r","t",";"," ","M","i","s","s","i","n","g"," ","S","i","d","e",";"," ","S","u","r","g","e","r","y"," ","f","l","a","g","g","e","d"," ","w","i","t","h","o","u","t"," ","d","a","t","e">>

\* the number of output records with at least one issue
IssueCount(rs) == Cardinality({i \in 1..Len(rs) : ExpectedIssues(rs[i]) # <<>>})

C10_SurgeryDate ==
    /\ Len(df) = Len(rows)
    /\ \A i \in 1..Len(rows) :
        /\ rows[i]["Surgery_Date"] # << >> => rows[i]["Had_Surgery"] = <<"Y","e","s">>
        /\ ~Truthy(df[i]) => rows[i]["Surgery_Date"] = << >>
        /\ ~Truthy(df[i]) => ~Contains(Join(GenerateRow(df[i]).issues, <<";"," ">>), SurgeryNoDate)
    /\ \A k \in 1..Len(anomalies) :
        anomalies[k]["Had_Surgery"] = <<"N","o">>
            => ~Contains(anomalies[k]["Issue"], <<"S","u","r","g","e","r","y"," ","f","l","a","g","g","e","d"," ","w","i","t","h","o","u","t"," ","d","a","t","e">>)

C10_Witness ==
    \E i \in 1..Len(rows) :
        /\ ~Truthy(df[i])
        /\ HasStr(df[i], "Date_of_Surgery", <<"2","0","2","4","-","0","3","-","1","5">>)
        /\ rows[i]["Surgery_Date"] = << >>
        /\ \E k \in 1..Len(anomalies) :
              /\ anomalies[k]["Issue"] = <<"M","i","s","s","i","n","g"," ","B","o","d","y","_","P","a","r","t",";"," ","M","i","s","s","i","n","g"," ","S","i","d","e">>
              /\ anomalies[k]["Had_Surgery"] = <<"N","o">>

\* the row with every absent column present and ""
FillEmpty(row) == [c \in Fields |-> Get(row, c, EmptyV)]

\* the derived fields and the issues of a row
Derived(g) ==
    <<g.rec["Body_Part"], g.rec["Side"], g.rec["Surgery_Type"],
      g.rec["Objective_Findings"], g.rec["Had_Surgery"], g.rec["Surgery_Date"],
      g.issues>>

\* C7: the derived fields and issues of a row with columns absent equal
\* those of the row with these columns present and ""; with all columns
\* absent they are "", "", "", "", "No", "" and
\* "Missing Body_Part; Missing Side".
C7_MissingAsEmpty ==
    pc = "returned" =>
        /\ Derived(ret) = Derived(GenerateRow(FillEmpty(arg)))
        /\ DOMAIN arg = {} =>
              Derived(ret) = <<<< >>, << >>, << >>, << >>, <<"N","o">>, << >>,
                               <<<<"M","i","s","s","i","n","g"," ","B","o","d","y","_","P","a","r","t">>, <<"M","i","s","s","i","n","g"," ","S","i","d","e">>>> >>

C7_Witness ==
    /\ pc = "returned"
    /\ DOMAIN arg = {"Had_Surgery"}
    /\ Truthy(arg)
    /\ ret.rec["Surgery_Date"] = << >>
    /\ Join(ret.issues, <<";"," ">>)
         = <<"M","i","s","s","i","n","g"," ","B","o","d","y","_","P","a","r","t",";"," ","M","i","s","s","i","n","g"," ","S","i","d","e",";"," ","S","u","r","g","e","r","y"," ","f","l","a","g","g","e","d"," ","w","i","t","h","o","u","t"," ","d","a","t","e">>

====
